---- MODULE Spec2Model ----
(***************************************************************************)
(* Model of the two polling scripts of footystats-bot:                     *)
(*   Bot.py      - check_matches(): CSV rows x live events, ">= minute"    *)
(*   src/bot.py  - process_once(df): live events looked up in the CSV,     *)
(*                 [MIN_MINUTE, MAX_MINUTE] window, league filters.        *)
(* Text is a sequence of one-character strings; numbers with a fractional  *)
(* part (average goals) are scaled by 100; time is in epoch seconds.       *)
(***************************************************************************)
EXTENDS Integers, Sequences, FiniteSets, TLC

VARIABLES variant, now, cycles, pc,
          RX_BLACK, RX_WHITE,
          df, evCount, already_notified,
          filtered_matches, live_matches, pos, notified_matches,
          last, cycleLog, delivered,
          nrm

vars == <<variant, now, cycles, pc, RX_BLACK, RX_WHITE,
          df, evCount, already_notified,
          filtered_matches, live_matches, pos, notified_matches,
          last, cycleLog, delivered, nrm>>

(***************************************************************************)
(* Optional values: <<>> is Python's None, <<x>> is the value x.           *)
(***************************************************************************)
NoneVal == <<>>
Some(x) == <<x>>
IsNone(o) == o = <<>>
Val(o) == o[1]

(***************************************************************************)
(* Characters.                                                             *)
(***************************************************************************)
UpperChars == <<"A","B","C","D","E","F","G","H","I","J","K","L","M",
                "N","O","P","Q","R","S","T","U","V","W","X","Y","Z">>
LowerChars == <<"a","b","c","d","e","f","g","h","i","j","k","l","m",
                "n","o","p","q","r","s","t","u","v","w","x","y","z">>
Digits == {"0","1","2","3","4","5","6","7","8","9"}
LowerSet == {LowerChars[i] : i \in DOMAIN LowerChars}
UpperSet == {UpperChars[i] : i \in DOMAIN UpperChars}

\* characters outside ASCII, written by their code points: e with acute
\* accent, the combining acute accent NFKD splits off it, and o with stroke
\* (a letter with no decomposition)
EAcute == "\\u00e9"
CombiningAcute == "\\u0301"
OStroke == "\\u00f8"

\* unicodedata.normalize("NFKD", ch) for one character
Nfkd(ch) == IF ch = EAcute THEN <<"e", CombiningAcute>> ELSE <<ch>>

\* unicodedata.combining(ch) != 0
Combining(ch) == ch = CombiningAcute

\* str.lower() for one character
LowerChar(ch) ==
    IF ch \in UpperSet
    THEN LowerChars[CHOOSE i \in DOMAIN UpperChars : UpperChars[i] = ch]
    ELSE ch

\* regex \s
IsSpace(ch) == ch = " "

\* regex \w on str patterns: Unicode letters, digits and the underscore
IsWordChar(ch) ==
    ch \in LowerSet \cup UpperSet \cup Digits \cup {"_", EAcute, OStroke}

(***************************************************************************)
(* Text helpers.                                                           *)
(***************************************************************************)
RECURSIVE FlatMap(_, _)
FlatMap(F(_), s) == IF s = <<>> THEN <<>> ELSE F(Head(s)) \o FlatMap(F, Tail(s))

Lower(s) == [i \in DOMAIN s |-> LowerChar(s[i])]

RECURSIVE LStrip(_)
LStrip(s) == IF s # <<>> /\ IsSpace(Head(s)) THEN LStrip(Tail(s)) ELSE s

RECURSIVE RStrip(_)
RStrip(s) ==
    IF s # <<>> /\ IsSpace(s[Len(s)]) THEN RStrip(SubSeq(s, 1, Len(s) - 1)) ELSE s

\* str.strip()
Strip(s) == RStrip(LStrip(s))

\* a in b  (substring test; the empty text is in every text)
Contains(b, a) ==
    \E i \in 1..(Len(b) - Len(a) + 1) : SubSeq(b, i, i + Len(a) - 1) = a

\* text.startswith(t, i - 1) with 1-based i
MatchAt(s, i, t) == i + Len(t) - 1 <= Len(s) /\ SubSeq(s, i, i + Len(t) - 1) = t

(***************************************************************************)
(* normalize (src/bot.py).                                                 *)
(***************************************************************************)
\* re.sub(r"\([^)]*\)", " ", s)
RECURSIVE SubParens(_)
SubParens(s) ==
    IF s = <<>> THEN <<>>
    ELSE IF Head(s) = "(" /\ \E k \in 2..Len(s) : s[k] = ")"
         THEN LET k == CHOOSE k \in 2..Len(s) :
                           s[k] = ")" /\ \A j \in 2..(k - 1) : s[j] # ")"
              IN  <<" ">> \o SubParens(SubSeq(s, k + 1, Len(s)))
         ELSE <<Head(s)>> \o SubParens(Tail(s))

\* the alternatives of r"\b(u19|u20|u21|u23|w|women|reserves?)\b", in order
QualifierTokens ==
    << <<"u","1","9">>, <<"u","2","0">>, <<"u","2","1">>, <<"u","2","3">>,
       <<"w">>, <<"w","o","m","e","n">>,
       <<"r","e","s","e","r","v","e","s">>, <<"r","e","s","e","r","v","e">> >>

\* regex \b before 1-based position p (p = Len(s) + 1 is the end of the text)
WordBoundary(s, p) ==
    LET before == p > 1 /\ IsWordChar(s[p - 1])
        after  == p <= Len(s) /\ IsWordChar(s[p])
    IN  before # after

\* the alternatives that match at position i with \b on both sides
QualifiersAt(s, i) ==
    {n \in DOMAIN QualifierTokens :
        /\ MatchAt(s, i, QualifierTokens[n])
        /\ WordBoundary(s, i)
        /\ WordBoundary(s, i + Len(QualifierTokens[n]))}

\* re.sub(r"\b(u19|u20|u21|u23|w|women|reserves?)\b", " ", s)
RECURSIVE SubQualifiers(_, _)
SubQualifiers(s, i) ==
    IF i > Len(s) THEN <<>>
    ELSE IF QualifiersAt(s, i) # {}
         THEN LET n == CHOOSE n \in QualifiersAt(s, i) :
                           \A m \in QualifiersAt(s, i) : n <= m
              IN  <<" ">> \o SubQualifiers(s, i + Len(QualifierTokens[n]))
         ELSE <<s[i]>> \o SubQualifiers(s, i + 1)

\* re.sub(r"[^a-z0-9\s]", " ", s)
SubNonAlnum(s) ==
    [i \in DOMAIN s |->
        IF s[i] \in LowerSet \cup Digits \/ IsSpace(s[i]) THEN s[i] ELSE " "]

\* re.sub(r"\s+", " ", s)
RECURSIVE CollapseSpaces(_)
CollapseSpaces(s) ==
    IF s = <<>> THEN <<>>
    ELSE IF IsSpace(Head(s))
         THEN <<" ">> \o CollapseSpaces(LStrip(s))
         ELSE <<Head(s)>> \o CollapseSpaces(Tail(s))

NfkdText(s) == FlatMap(Nfkd, s)

DropCombining(s) == SelectSeq(s, LAMBDA ch : ~Combining(ch))

\* callers always pass str(...), so the "s is None" branch is not modelled
normalize(s) ==
    Strip(CollapseSpaces(SubNonAlnum(SubQualifiers(
        SubParens(Lower(DropCombining(NfkdText(s)))), 1))))

(***************************************************************************)
(* Configuration (module-level constants of the scripts).                  *)
(***************************************************************************)
\* src/bot.py AVG_GOALS_THRESHOLD, "2.5" scaled by 100
AVG_GOALS_THRESHOLD == 250
MIN_MINUTE == 50
MAX_MINUTE == 56
TEAM_FORM_MIN_AVG == 0
CHECK_INTERVAL_SECONDS == 300
\* Bot.py AVG_GOALS_THRESHOLD = 2.50, scaled by 100
BotAvgGoalsThreshold == 250
CHECK_TIME_MINUTES == 50
\* Bot.py check_interval
check_interval == 300
\* Bot.py main: time.sleep(60) after an exception reached the loop
error_sleep == 60

(***************************************************************************)
(* Bounds of the model.                                                    *)
(***************************************************************************)
\* polling cycles of one process run
MaxCycles == 2
\* live events returned by one fetch
MaxEvents == 2
\* rows of the schedule CSV
MaxRows == 1
\* length of the texts normalize is applied to on its own
MaxLen == 3
\* the UTC epoch second at which the process starts
StartEpoch == 1000 * 60

(***************************************************************************)
(* Texts used as inputs.                                                   *)
(***************************************************************************)
Chelsea == <<"C","h","e","l","s","e","a">>
Arsenal == <<"A","r","s","e","n","a","l">>
ChelseaFC == Chelsea \o <<" ","F","C">>
ArsenalFC == Arsenal \o <<" ","F","C">>
ChelseaW == Chelsea \o <<" ","(","W",")">>
PremierLeague == <<"P","r","e","m","i","e","r"," ","L","e","a","g","u","e">>
EsoccerBattle == <<"E","s","o","c","c","e","r"," ","B","a","t","t","l","e">>
\* values of the blacklist and whitelist environment variables
EnvEmpty == <<>>
EnvBlack == <<"E","S","O","C","C","E","R"," ","|","V","i","r","t","u","a","l">>
EnvWhite == <<"p","r","e","m","i","e","r">>
\* the pairs of blacklist and whitelist values the process is started with
Environments == {<<EnvEmpty, EnvEmpty>>, <<EnvBlack, EnvEmpty>>, <<EnvEmpty, EnvWhite>>}

\* normalize on the texts the inputs are built from, computed once
InputTexts == {Chelsea, Arsenal, ChelseaFC, ArsenalFC, ChelseaW,
               PremierLeague, EsoccerBattle, <<>>}
Normalized == [t \in InputTexts |-> normalize(t)]

(***************************************************************************)
(* League filters (src/bot.py).                                            *)
(***************************************************************************)
\* pipe_str.split("|")
RECURSIVE SplitPipe(_, _)
SplitPipe(s, cur) ==
    IF s = <<>> THEN <<cur>>
    ELSE IF Head(s) = "|" THEN <<cur>> \o SplitPipe(Tail(s), <<>>)
         ELSE SplitPipe(Tail(s), Append(cur, Head(s)))

\* the tokens of the compiled alternation, or NoneVal when there is none
compile_pipe_regex(pipe_str) ==
    LET stripped == Strip(pipe_str)
        parts == SplitPipe(stripped, <<>>)
        tokens == SelectSeq([k \in DOMAIN parts |-> Strip(parts[k])],
                            LAMBDA t : t # <<>>)
    IN  IF stripped = <<>> \/ tokens = <<>> THEN NoneVal ELSE Some(tokens)

\* RegexSearch without re.IGNORECASE
RegexSearchCaseSensitive(rx, text) ==
    \E k \in DOMAIN Val(rx) : Contains(text, Val(rx)[k])

\* rx.search(text) for an alternation of escaped tokens, re.IGNORECASE
RegexSearch(rx, text) ==
    \E k \in DOMAIN Val(rx) : Contains(Lower(text), Lower(Val(rx)[k]))

league_allowed(league_name) ==
    IF ~IsNone(RX_WHITE) /\ ~RegexSearch(RX_WHITE, league_name) THEN FALSE
    ELSE IF ~IsNone(RX_BLACK) /\ RegexSearch(RX_BLACK, league_name) THEN FALSE
    ELSE TRUE

(***************************************************************************)
(* Inputs: the schedule CSV.  A row carries the logical columns; avg is    *)
(* NoneVal when the cell is empty or not a number.                         *)
(***************************************************************************)
Row(h, a, avg) ==
    [home |-> h, away |-> a, league |-> PremierLeague, avg |-> avg,
     home_form |-> NoneVal, away_form |-> NoneVal]

RowHigh == Row(Chelsea, Arsenal, Some(310))
RowLow == Row(Chelsea, Arsenal, Some(200))
RowNoAvg == Row(Chelsea, Arsenal, NoneVal)

CsvRows == {RowHigh, RowLow, RowNoAvg}

\* the CSV files read: up to MaxRows records, no record twice
RowLists ==
    {rows \in UNION {[1..n -> CsvRows] : n \in 0..MaxRows} :
        \A i, j \in DOMAIN rows : rows[i] = rows[j] => i = j}

\* no frame read yet
NoFrame == [hasLeague |-> FALSE, rows |-> <<>>]

\* the frames read_csv can return: without a league column, or with one
DataFrames ==
    [hasLeague : {FALSE}, rows : RowLists]
        \cup {[hasLeague |-> TRUE, rows |-> <<RowHigh>>]}

(***************************************************************************)
(* Inputs: live events of src/bot.py.  score is "fields" (homeScore /      *)
(* awayScore keys), "nested" (score: {home, away}) or "composite"          *)
(* (score: "H-A"); goals are the actual goals the feed reports.            *)
(***************************************************************************)
BaseEvent ==
    [id |-> "1", home |-> Chelsea, away |-> Arsenal, league |-> PremierLeague,
     score |-> "fields", homeGoals |-> 0, awayGoals |-> 0,
     minute |-> Some(52), minuteAt |-> "minute", kickoff |-> NoneVal]

LiveEvents ==
    {BaseEvent,
     [BaseEvent EXCEPT !.home = ChelseaFC, !.away = ArsenalFC],
     \* no home name: the key is absent, null or ''
     [BaseEvent EXCEPT !.home = <<>>],
     [BaseEvent EXCEPT !.home = Arsenal, !.away = Chelsea],
     [BaseEvent EXCEPT !.league = EsoccerBattle],
     [BaseEvent EXCEPT !.score = "nested", !.homeGoals = 1],
     [BaseEvent EXCEPT !.score = "composite", !.homeGoals = 1],
     [BaseEvent EXCEPT !.minute = NoneVal],
     [BaseEvent EXCEPT !.minute = NoneVal, !.kickoff = Some(StartEpoch - 52 * 60)],
     [BaseEvent EXCEPT !.minute = NoneVal, !.kickoff = Some(StartEpoch + 150)],
     \* an explicit minute together with a kickoff time
     [BaseEvent EXCEPT !.minuteAt = "time.minute",
                       !.kickoff = Some(StartEpoch - 10 * 60)],
     [BaseEvent EXCEPT !.minute = Some(0), !.kickoff = Some(StartEpoch - 52 * 60)],
     [BaseEvent EXCEPT !.minute = Some(0), !.minuteAt = "time.minute",
                       !.kickoff = Some(StartEpoch - 52 * 60)]}
    \cup {[BaseEvent EXCEPT !.minute = Some(m)] : m \in {50, 56, 61}}

(***************************************************************************)
(* src/bot.py: extraction and elapsed minutes.                             *)
(***************************************************************************)
\* safe_get(ev, "score", side) or ev.get(side + "Score") or 0, then int()
ExtractScore(ev, goals) ==
    CASE ev.score = "fields" -> goals
      [] ev.score = "nested" -> goals
      [] OTHER -> 0

\* kickoff epoch: "ev.get('kickoff') or ... or None" keeps no falsy value
ExtractKickoff(ev) ==
    IF IsNone(ev.kickoff) \/ Val(ev.kickoff) = 0 THEN NoneVal ELSE ev.kickoff

extract_event_fields(ev) ==
    [eid |-> ev.id, home |-> ev.home, away |-> ev.away,
     hs |-> ExtractScore(ev, ev.homeGoals), as_ |-> ExtractScore(ev, ev.awayGoals),
     ko_epoch |-> ExtractKickoff(ev), league |-> ev.league]

\* Python's // on integers
FloorDiv(a, b) == a \div b

\* cand: safe_get(ev, "time", "minute") or ... or ev.get("minute").  "or"
\* passes over a falsy operand, so a nested minute of 0 is dropped and the
\* chain yields its last operand, ev.get("minute"), 0 included
explicit_minute(ev) ==
    IF IsNone(ev.minute) THEN NoneVal
    ELSE IF ev.minuteAt = "minute" THEN ev.minute
    ELSE IF Val(ev.minute) # 0 THEN ev.minute
    ELSE NoneVal

get_elapsed_minutes(ev, ko_epoch, clock) ==
    IF ~IsNone(explicit_minute(ev)) THEN explicit_minute(ev)
    ELSE IF ~IsNone(ko_epoch) /\ Val(ko_epoch) # 0 /\ clock > Val(ko_epoch)
         THEN Some(FloorDiv(clock - Val(ko_epoch), 60))
         ELSE NoneVal

\* InWindow without the upper bound
InWindowNoUpperBound(minute) == ~(minute < MIN_MINUTE)

\* the minute-window guard of process_once
InWindow(minute) == ~(minute < MIN_MINUTE \/ minute > MAX_MINUTE)

(***************************************************************************)
(* src/bot.py: lookup of the event in the CSV.                             *)
(***************************************************************************)
Rows(frame) == {frame.rows[k] : k \in DOMAIN frame.rows}

rows_match(r, n_home, n_away) ==
    <<Normalized[r.home], Normalized[r.away]>>
        \in {<<n_home, n_away>>, <<n_away, n_home>>}

\* the result of a lookup that found no row
NoMatch ==
    [raised |-> FALSE, examined |-> {}, row |-> 0,
     avg |-> NoneVal, hf |-> NoneVal, af |-> NoneVal]

\* "if cand.empty: return None, None, None", else the columns of cand.iloc[0];
\* cand holds the indexes of the rows rows_match accepted
first_candidate(frame, cand) ==
    IF cand = {} THEN [NoMatch EXCEPT !.examined = Rows(frame)]
    ELSE LET first == CHOOSE k \in cand : \A m \in cand : k <= m
         IN  [raised |-> FALSE, examined |-> Rows(frame), row |-> first,
              avg |-> frame.rows[first].avg,
              hf |-> frame.rows[first].home_form,
              af |-> frame.rows[first].away_form]

\* raised: the lookup ended in an exception; examined: the rows rows_match
\* was applied to; row: index of cand.iloc[0], 0 when there is none
lookup_match_avg(frame, league, home, away) ==
    IF frame.rows = <<>> THEN NoMatch
    \* "df[...] or df" asks a DataFrame for its truth value: ValueError
    ELSE IF frame.hasLeague /\ league # <<>> THEN [NoMatch EXCEPT !.raised = TRUE]
    ELSE first_candidate(frame,
             {k \in DOMAIN frame.rows :
                  rows_match(frame.rows[k], Normalized[home], Normalized[away])})

\* AvgAccepted without the threshold
AvgAcceptedAnyNumber(avg) == ~IsNone(avg)

\* the average-goals guard of process_once
AvgAccepted(avg) == ~IsNone(avg) /\ ~(Val(avg) < AVG_GOALS_THRESHOLD)

\* the optional team-form guard of process_once
FormAccepted(hf, af) ==
    IF TEAM_FORM_MIN_AVG > 0
    THEN ~(~IsNone(hf) /\ Val(hf) < TEAM_FORM_MIN_AVG)
         /\ ~(~IsNone(af) /\ Val(af) < TEAM_FORM_MIN_AVG)
    ELSE TRUE

dedup_key(league, home, away) ==
    Normalized[league] \o <<"|">> \o Normalized[home] \o <<"|">> \o Normalized[away]

\* the interpolated fields of the alert text
event_to_signal_text(league, home, away, minute, avg) ==
    [home |-> home, away |-> away, league |-> league, avg |-> avg,
     minute |-> minute, score |-> <<0, 0>>]

(***************************************************************************)
(* Bookkeeping of what the scripts did (not program state): last is the    *)
(* latest evaluation (the event, the extracted score, the resolved minute, *)
(* the CSV row paired with it, the rows the matcher was applied to, the    *)
(* key, the alert and the outcome), cycleLog the <<row, event>> pairs a    *)
(* send was issued for in the current cycle, delivered the number of       *)
(* accepted sends per key.                                                 *)
(***************************************************************************)
NoEval == [kind |-> "none"]

Count(f, k) == IF k \in DOMAIN f THEN f[k] ELSE 0

Bump(f, k) == [x \in DOMAIN f \cup {k} |-> Count(f, x) + (IF x = k THEN 1 ELSE 0)]

SendOutcomes == {"sent", "send_failed"}

\* an evaluation that reached the send: the HTTP POST is accepted (2xx, "sent")
\* or not (another status or an exception, "send_failed")
SendResults(r) ==
    IF r.outcome = "send"
    THEN {[r EXCEPT !.outcome = o] : o \in SendOutcomes}
    ELSE {r}

(***************************************************************************)
(* src/bot.py: the body of the loop of process_once for one event.         *)
(***************************************************************************)
\* IsDuplicate with the membership test lost
NeverDuplicate(key, notified) == FALSE

\* "if dedup_key in already_notified: continue"
IsDuplicate(key, notified) == key \in notified

\* the set after the guards passed and send_telegram returned (it returns
\* nothing, whatever the HTTP outcome; the key was added before the call)
NotifiedAfterSend(notified, key, ok) == notified \cup {key}

\* the evaluation before any guard has passed
NoOutcome(ev, f) ==
    [kind |-> "eval", ev |-> ev, hs |-> f.hs, as_ |-> f.as_,
     minute |-> NoneVal, row |-> 0, rowAvg |-> NoneVal, examined |-> {},
     key |-> <<>>, msg |-> NoneVal, outcome |-> "incomplete",
     deliveredBefore |-> 0]

\* the guards after the lookup returned lk for the event with the given key
row_guards(found, f, minute, lk, key) ==
    IF IsNone(lk.avg) THEN [found EXCEPT !.outcome = "no_avg"]
    ELSE IF ~AvgAccepted(lk.avg) THEN [found EXCEPT !.outcome = "low_avg"]
    ELSE IF ~FormAccepted(lk.hf, lk.af) THEN [found EXCEPT !.outcome = "form"]
    ELSE IF IsDuplicate(key, already_notified)
         THEN [found EXCEPT !.outcome = "duplicate", !.key = key]
    ELSE [found EXCEPT
            !.outcome = "send",
            !.key = key,
            !.deliveredBefore = Count(delivered, key),
            !.msg = Some(event_to_signal_text(f.league, f.home, f.away,
                                              Val(minute), Val(lk.avg)))]

\* the guards of the loop body in their order; the lookup (and its
\* exception) is reached only after the minute window passed
event_guards(base, f, minute, lk, key) ==
    IF f.home = <<>> \/ f.away = <<>> \/ f.league = <<>> THEN base
    ELSE IF ~league_allowed(f.league) THEN [base EXCEPT !.outcome = "league"]
    ELSE IF f.hs # 0 \/ f.as_ # 0 THEN [base EXCEPT !.outcome = "score"]
    ELSE IF IsNone(minute) THEN [base EXCEPT !.outcome = "no_minute"]
    ELSE IF ~InWindow(Val(minute))
         THEN [base EXCEPT !.outcome = "window", !.minute = minute]
    ELSE IF lk.raised
         THEN [base EXCEPT !.outcome = "error", !.minute = minute]
    ELSE row_guards([base EXCEPT !.minute = minute, !.row = lk.row,
                                 !.rowAvg = lk.avg, !.examined = lk.examined],
                    f, minute, lk, key)

process_fields(ev, f) ==
    event_guards(NoOutcome(ev, f), f,
                 get_elapsed_minutes(ev, f.ko_epoch, now),
                 lookup_match_avg(df, f.league, f.home, f.away),
                 dedup_key(f.league, f.home, f.away))

process_event(ev) == process_fields(ev, extract_event_fields(ev))

(***************************************************************************)
(* src/bot.py: main() and process_once().  The list fetch_live_events      *)
(* returns is consumed one event at a time; evCount is the number of       *)
(* events of the current list already handled.                             *)
(***************************************************************************)
ReadCsv ==
    /\ variant = "src/bot.py" /\ pc = "read_csv"
    /\ \E frame \in DataFrames : df' = frame
    /\ pc' = "process_once"
    /\ evCount' = 0 /\ cycleLog' = {} /\ last' = NoEval
    /\ UNCHANGED <<variant, now, cycles, RX_BLACK, RX_WHITE,
                   already_notified, filtered_matches, live_matches, pos,
                   notified_matches, delivered, nrm>>

\* read_csv raises (download or parse error); main logs it and sleeps
ReadCsvFails ==
    /\ variant = "src/bot.py" /\ pc = "read_csv"
    /\ pc' = "sleep"
    /\ evCount' = 0 /\ cycleLog' = {} /\ last' = NoEval
    /\ UNCHANGED <<variant, now, cycles, RX_BLACK, RX_WHITE, df,
                   already_notified, filtered_matches, live_matches, pos,
                   notified_matches, delivered, nrm>>

ProcessEvent ==
    /\ variant = "src/bot.py" /\ pc = "process_once"
    /\ evCount < MaxEvents
    /\ \E ev \in LiveEvents :
         /\ last' \in SendResults(process_event(ev))
         /\ IF last'.outcome \in SendOutcomes
            THEN /\ already_notified' =
                        NotifiedAfterSend(already_notified, last'.key, last'.outcome = "sent")
                 /\ cycleLog' = cycleLog \cup {<<last'.row, evCount + 1>>}
                 /\ delivered' = IF last'.outcome = "sent"
                                 THEN Bump(delivered, last'.key) ELSE delivered
            ELSE UNCHANGED <<already_notified, cycleLog, delivered>>
    /\ evCount' = evCount + 1
    /\ UNCHANGED <<variant, now, cycles, pc, RX_BLACK, RX_WHITE, df,
                   filtered_matches, live_matches, pos, notified_matches, nrm>>

\* the list is exhausted (or fetch_live_events raised or returned nothing)
EndProcessOnce ==
    /\ variant = "src/bot.py" /\ pc = "process_once"
    /\ pc' = "sleep"
    /\ UNCHANGED <<variant, now, cycles, RX_BLACK, RX_WHITE, df, evCount,
                   already_notified, filtered_matches, live_matches, pos,
                   notified_matches, last, cycleLog, delivered, nrm>>

\* time.sleep(CHECK_INTERVAL_SECONDS); the frame of the finished cycle is dropped
Sleep ==
    /\ variant = "src/bot.py" /\ pc = "sleep"
    /\ cycles < MaxCycles
    /\ cycles' = cycles + 1
    /\ now' = now + CHECK_INTERVAL_SECONDS
    /\ df' = NoFrame /\ evCount' = 0
    /\ cycleLog' = {} /\ last' = NoEval
    /\ pc' = "read_csv"
    /\ UNCHANGED <<variant, RX_BLACK, RX_WHITE,
                   already_notified, filtered_matches, live_matches, pos,
                   notified_matches, delivered, nrm>>

(***************************************************************************)
(* Inputs: live events of Bot.py.  TU is the start time as epoch seconds,  *)
(* NoneVal when the text is not in the YYYYMMDDHHMMSS format.  shape tells *)
(* how the team names arrive: "ok" (both keys hold text), "no_team_keys"   *)
(* (the event has neither key; get() then yields the default ''),          *)
(* "null_team" (the home key holds null, which is no text).                *)
(***************************************************************************)
NilNil == <<"0","-","0">>
OneNil == <<"1","-","0">>

BotBaseEvent ==
    [id |-> "1", home |-> ChelseaFC, away |-> ArsenalFC, league |-> PremierLeague,
     SS |-> NilNil, TU |-> Some(StartEpoch - 52 * 60), shape |-> "ok"]

BotLiveEvents ==
    {BotBaseEvent,
     [BotBaseEvent EXCEPT !.id = "2", !.home = Chelsea, !.away = Arsenal],
     [BotBaseEvent EXCEPT !.home = Arsenal, !.away = Chelsea],
     [BotBaseEvent EXCEPT !.SS = OneNil],
     [BotBaseEvent EXCEPT !.TU = Some(StartEpoch + 150)],
     [BotBaseEvent EXCEPT !.TU = NoneVal],
     [BotBaseEvent EXCEPT !.id = "2", !.home = <<>>, !.away = Arsenal],
     [BotBaseEvent EXCEPT !.id = "4", !.home = <<>>, !.away = <<>>,
                          !.shape = "no_team_keys"],
     [BotBaseEvent EXCEPT !.id = "5", !.shape = "null_team"]}

BotLiveLists == UNION {[1..n -> BotLiveEvents] : n \in 0..MaxEvents}

(***************************************************************************)
(* Bot.py: helpers of check_matches.                                       *)
(***************************************************************************)
\* float(match.get('Average Goals', 0)) >= AVG_GOALS_THRESHOLD; a cell that
\* is no number raises and the row is skipped
AvgPasses(row) == ~IsNone(row.avg) /\ Val(row.avg) >= BotAvgGoalsThreshold

filter_matches_by_avg(matches) == SelectSeq(matches, AvgPasses)

parse_timestamp(tu) == tu

\* int(x / y): Python truncates toward zero
TruncDiv(a, b) == IF a >= 0 THEN a \div b ELSE -((-a) \div b)

BotElapsedMinutes(start_time, clock) == TruncDiv(clock - start_time, 60)

\* live_match.get('home', '').lower() on a value that is no text raises
\* AttributeError
match_teams_raises(csv_match, live_match) == live_match.shape = "null_team"

\* live_match['home'] in the log line raises KeyError when the key is absent
log_line_raises(live_match) == live_match.shape = "no_team_keys"

\* name.lower().strip() for every name of the inputs
LowerStripped == [t \in InputTexts |-> Strip(Lower(t))]

match_teams(csv_match, live_match) ==
    LET csv_home == LowerStripped[csv_match.home]
        csv_away == LowerStripped[csv_match.away]
        live_home == LowerStripped[live_match.home]
        live_away == LowerStripped[live_match.away]
    IN  \/ (csv_home = live_home /\ csv_away = live_away)
        \/ (Contains(live_home, csv_home) /\ Contains(live_away, csv_away))
        \/ (Contains(csv_home, live_home) /\ Contains(csv_away, live_away))

\* "if elapsed >= CHECK_TIME_MINUTES and score == '0-0'"
BotDue(elapsed, score) == elapsed >= CHECK_TIME_MINUTES /\ score = NilNil

\* "if match_id in notified_matches: continue"
BotIsNotified(match_id, notified) == match_id \in notified

\* "if send_telegram_message(message): notified_matches.add(match_id)"
BotNotifiedAfterSend(notified, match_id, ok) ==
    IF ok THEN notified \cup {match_id} ELSE notified

\* the interpolated fields of the alert text
BotMessage(csv_match, live_match, elapsed, score) ==
    [home |-> live_match.home, away |-> live_match.away,
     league |-> live_match.league, avg |-> Val(csv_match.avg),
     minute |-> elapsed, score |-> score]

\* the body of the inner loop for the pair (csv row i, live event j)
check_pair(i, j) ==
    LET csv_match == filtered_matches[i]
        live_match == live_matches[j]
        start_time == parse_timestamp(live_match.TU)
        elapsed == BotElapsedMinutes(Val(start_time), now)
        base == [kind |-> "eval", ev |-> live_match, hs |-> 0, as_ |-> 0,
                 minute |-> NoneVal, row |-> i, rowAvg |-> csv_match.avg,
                 examined |-> {csv_match},
                 key |-> live_match.id, msg |-> NoneVal, outcome |-> "no_match",
                 deliveredBefore |-> 0]
    IN  IF match_teams_raises(csv_match, live_match)
        THEN [base EXCEPT !.outcome = "raised"]
        ELSE IF ~match_teams(csv_match, live_match) THEN base
        ELSE IF BotIsNotified(live_match.id, notified_matches)
             THEN [base EXCEPT !.outcome = "duplicate"]
        ELSE IF IsNone(start_time) THEN [base EXCEPT !.outcome = "no_start"]
        ELSE IF log_line_raises(live_match)
             THEN [base EXCEPT !.outcome = "raised", !.minute = Some(elapsed)]
        ELSE IF ~BotDue(elapsed, live_match.SS)
             THEN [base EXCEPT !.outcome = "not_due", !.minute = Some(elapsed)]
        ELSE [base EXCEPT
                !.outcome = "send",
                !.minute = Some(elapsed),
                !.deliveredBefore = Count(delivered, live_match.id),
                !.msg = Some(BotMessage(csv_match, live_match, elapsed, live_match.SS))]

(***************************************************************************)
(* Bot.py: main() and check_matches().  pos is <<i, j>>, the pair of the   *)
(* nested loops handled next.                                              *)
(***************************************************************************)
\* steps 1-3 of check_matches: load the CSV (a failed download is an empty
\* list) and filter it; the live list is fetched only when a row is left;
\* any empty list ends the cycle
CheckMatches ==
    /\ variant = "Bot.py" /\ pc = "check_matches"
    /\ filtered_matches' \in {filter_matches_by_avg(csv) : csv \in RowLists}
    /\ live_matches' \in IF filtered_matches' = <<>> THEN {<<>>} ELSE BotLiveLists
    /\ pc' = IF live_matches' = <<>> THEN "sleep" ELSE "loop"
    /\ pos' = <<1, 1>> /\ cycleLog' = {} /\ last' = NoEval
    /\ UNCHANGED <<variant, now, cycles, RX_BLACK, RX_WHITE, df, evCount,
                   already_notified, notified_matches, delivered, nrm>>

\* main_except without the handler: the exception ends the process
main_exits == "exited"

\* where main continues after an exception left check_matches: the
\* "except Exception" branch, which logs and sleeps
main_except == "error_sleep"

\* one pass of the inner loop body; the loops end after the last pair, or
\* with the exception the body raised (pos then stays at the raising pair)
CheckPair ==
    /\ variant = "Bot.py" /\ pc = "loop"
    /\ last' \in SendResults(check_pair(pos[1], pos[2]))
    /\ IF last'.outcome \in SendOutcomes
       THEN /\ notified_matches' =
                   BotNotifiedAfterSend(notified_matches, last'.key, last'.outcome = "sent")
            /\ cycleLog' = cycleLog \cup {<<pos[1], pos[2]>>}
            /\ delivered' = IF last'.outcome = "sent"
                            THEN Bump(delivered, last'.key) ELSE delivered
       ELSE UNCHANGED <<notified_matches, cycleLog, delivered>>
    /\ pos' = IF last'.outcome = "raised" THEN pos
              ELSE IF pos[2] < Len(live_matches) THEN <<pos[1], pos[2] + 1>>
              ELSE <<pos[1] + 1, 1>>
    /\ pc' = IF last'.outcome = "raised" THEN main_except
             ELSE IF pos[2] = Len(live_matches) /\ pos[1] = Len(filtered_matches)
             THEN "sleep" ELSE "loop"
    /\ UNCHANGED <<variant, now, cycles, RX_BLACK, RX_WHITE, df, evCount,
                   already_notified, filtered_matches, live_matches, nrm>>

\* time.sleep(check_interval); the lists of the finished cycle are dropped
BotSleep ==
    /\ variant = "Bot.py" /\ pc = "sleep"
    /\ cycles < MaxCycles
    /\ cycles' = cycles + 1
    /\ now' = now + check_interval
    /\ filtered_matches' = <<>> /\ live_matches' = <<>> /\ pos' = <<1, 1>>
    /\ cycleLog' = {} /\ last' = NoEval
    /\ pc' = "check_matches"
    /\ UNCHANGED <<variant, RX_BLACK, RX_WHITE, df, evCount,
                   already_notified, notified_matches, delivered, nrm>>

\* "except Exception": time.sleep(60), then the next pass of "while True"
BotErrorSleep ==
    /\ variant = "Bot.py" /\ pc = "error_sleep"
    /\ cycles < MaxCycles
    /\ cycles' = cycles + 1
    /\ now' = now + error_sleep
    /\ filtered_matches' = <<>> /\ live_matches' = <<>> /\ pos' = <<1, 1>>
    /\ cycleLog' = {} /\ last' = NoEval
    /\ pc' = "check_matches"
    /\ UNCHANGED <<variant, RX_BLACK, RX_WHITE, df, evCount,
                   already_notified, notified_matches, delivered, nrm>>

(***************************************************************************)
(* The process: one of the two scripts is started, with its environment.   *)
(***************************************************************************)
NoNormalize == [stage |-> "off"]

Init ==
    /\ variant \in {"Bot.py", "src/bot.py"}
    /\ now = StartEpoch
    /\ cycles = 1
    /\ pc = IF variant = "Bot.py" THEN "check_matches" ELSE "read_csv"
    /\ \E env \in IF variant = "Bot.py" THEN {<<EnvEmpty, EnvEmpty>>} ELSE Environments :
         /\ RX_BLACK = compile_pipe_regex(env[1])
         /\ RX_WHITE = compile_pipe_regex(env[2])
    /\ df = NoFrame
    /\ evCount = 0
    /\ already_notified = {}
    /\ filtered_matches = <<>> /\ live_matches = <<>> /\ pos = <<1, 1>>
    /\ notified_matches = {}
    /\ last = NoEval /\ cycleLog = {} /\ delivered = <<>>
    /\ nrm = NoNormalize

Next ==
    \/ ReadCsv \/ ReadCsvFails \/ ProcessEvent \/ EndProcessOnce \/ Sleep
    \/ CheckMatches \/ CheckPair \/ BotSleep \/ BotErrorSleep

Spec == Init /\ [][Next]_vars

\* both scripts run one thread that never waits for anything but its own
\* sleep: a step that can be taken is taken
LiveSpec ==
    /\ Spec
    /\ WF_vars(ReadCsv \/ ReadCsvFails)
    \* the list of live events is finite: the loop over it ends
    /\ WF_vars(EndProcessOnce)
    /\ WF_vars(Sleep)
    /\ WF_vars(CheckMatches)
    /\ WF_vars(CheckPair)
    /\ WF_vars(BotSleep)
    /\ WF_vars(BotErrorSleep)

(***************************************************************************)
(* normalize on its own: every text of up to MaxLen characters over        *)
(* NormAlphabet is normalized, and the result is normalized again.         *)
(***************************************************************************)
NormAlphabet == {"a", "w", "W", " ", "_", "-", "(", ")", EAcute, OStroke}

NormTexts == UNION {[1..n -> NormAlphabet] : n \in 0..MaxLen}

NormInit ==
    /\ variant = "normalize"
    /\ now = StartEpoch
    /\ cycles = 1
    /\ pc = "normalize"
    /\ RX_BLACK = NoneVal /\ RX_WHITE = NoneVal
    /\ df = NoFrame
    /\ evCount = 0
    /\ already_notified = {}
    /\ filtered_matches = <<>> /\ live_matches = <<>> /\ pos = <<1, 1>>
    /\ notified_matches = {}
    /\ last = NoEval /\ cycleLog = {} /\ delivered = <<>>
    /\ \E s \in NormTexts : nrm = [stage |-> "input", text |-> s]

NormalizeOnce ==
    /\ nrm.stage = "input"
    /\ nrm' = [stage |-> "once", text |-> nrm.text, once |-> normalize(nrm.text)]
    /\ UNCHANGED <<variant, now, cycles, pc, RX_BLACK, RX_WHITE, df, evCount,
                   already_notified, filtered_matches, live_matches, pos,
                   notified_matches, last, cycleLog, delivered>>

NormalizeAgain ==
    /\ nrm.stage = "once"
    /\ nrm' = [stage |-> "twice", text |-> nrm.text, once |-> nrm.once,
               twice |-> normalize(nrm.once)]
    /\ UNCHANGED <<variant, now, cycles, pc, RX_BLACK, RX_WHITE, df, evCount,
                   already_notified, filtered_matches, live_matches, pos,
                   notified_matches, last, cycleLog, delivered>>

NormNext == NormalizeOnce \/ NormalizeAgain

NormSpec == NormInit /\ [][NormNext]_vars

(***************************************************************************)
(* Properties.                                                             *)
(***************************************************************************)
Evaluated == last.kind = "eval"

\* the latest evaluation issued a send (accepted or not)
Sent == Evaluated /\ last.outcome \in SendOutcomes

BelowThreshold(avg) == IsNone(avg) \/ Val(avg) < AVG_GOALS_THRESHOLD

\* C1: over all cycles of a run at most one notification is delivered for a
\* key, and a send is only ever issued for a key nothing was delivered for
\* before: once notified, later evaluations of the key send nothing.
C1_AtMostOneNotificationPerKey ==
    /\ \A k \in DOMAIN delivered : delivered[k] <= 1
    /\ Sent => last.deliveredBefore = 0

\* a fixture notified in the first cycle is suppressed in a later cycle
C1_SuppressedInLaterCycle ==
    /\ Evaluated /\ last.outcome = "duplicate"
    /\ now > StartEpoch
    /\ Count(delivered, last.key) = 1

\* C2: when the send for an eligible fixture fails, its key is not in the
\* duplicate-suppression set (so a later cycle sends again).
C2_FailedSendLeavesKeyOut ==
    (Evaluated /\ last.outcome = "send_failed")
        => (last.key \notin already_notified /\ last.key \notin notified_matches)

C4_SentOnlyAtNilNil ==
    Sent => IF variant = "Bot.py"
            THEN last.ev.SS = NilNil
            ELSE last.ev.homeGoals = 0 /\ last.ev.awayGoals = 0

\* the resolved elapsed minute of the latest evaluation: the whole minutes
\* since TU in Bot.py, the minute get_elapsed_minutes returned in src/bot.py
InputMinute ==
    IF variant = "Bot.py" THEN (now - Val(last.ev.TU)) \div 60
    ELSE Val(last.minute)

\* C5: with the window [MIN_MINUTE, MAX_MINUTE] of src/bot.py a notification
\* is sent only when MIN_MINUTE <= minute <= MAX_MINUTE, and the alert shows
\* that minute; Bot.py, which has the single threshold, sends only from
\* CHECK_TIME_MINUTES on.
C5_SentOnlyInsideWindow ==
    Sent => /\ Val(last.msg).minute = InputMinute
            /\ IF variant = "Bot.py"
               THEN InputMinute >= CHECK_TIME_MINUTES
               ELSE MIN_MINUTE <= InputMinute /\ InputMinute <= MAX_MINUTE

\* a notification at the last minute of the window
C5_SentAtMaxMinute ==
    /\ variant = "src/bot.py" /\ Evaluated
    /\ last.outcome = "sent"
    /\ last.ev.minute = Some(MAX_MINUTE)

\* C6: elapsed-minute resolution never yields a negative number (a kickoff
\* in the future yields none).
C6_ElapsedNeverNegative ==
    (Evaluated /\ ~IsNone(last.minute)) => Val(last.minute) >= 0

\* a token of the alternation occurs in the league name, ignoring case
HasToken(rx, league) ==
    \E k \in DOMAIN Val(rx) : Contains(Lower(league), Lower(Val(rx)[k]))

LeagueExcluded(league) ==
    \/ ~IsNone(RX_BLACK) /\ HasToken(RX_BLACK, league)
    \/ ~IsNone(RX_WHITE) /\ ~HasToken(RX_WHITE, league)

\* C7: an event whose league name contains a blacklist token (ignoring case)
\* or matches no token of a configured whitelist is rejected whatever its
\* other fields are: nothing is sent and its key is not in the
\* duplicate-suppression set.
C7_ExcludedLeagueRejected ==
    (variant = "src/bot.py" /\ Evaluated /\ LeagueExcluded(last.ev.league))
        => /\ last.outcome \in {"incomplete", "league"}
           /\ dedup_key(last.ev.league, last.ev.home, last.ev.away)
                  \notin already_notified

\* "Esoccer Battle" rejected under the blacklist "ESOCCER |Virtual"
C7_EsoccerRejected ==
    /\ variant = "src/bot.py" /\ Evaluated
    /\ ~IsNone(RX_BLACK)
    /\ last.ev.league = EsoccerBattle
    /\ last.ev.homeGoals = 0 /\ last.ev.awayGoals = 0
    /\ last.ev.minute = Some(52)
    /\ last.outcome = "league"

\* the two names are equal or one contains the other, ignoring case
SameName(a, b) ==
    LET x == Strip(Lower(a))
        y == Strip(Lower(b))
    IN  x = y \/ Contains(x, y) \/ Contains(y, x)

SameTeams(r, ev) == SameName(r.home, ev.home) /\ SameName(r.away, ev.away)

\* the latest evaluation was of a fixture that passes every guard
Eligible ==
    IF variant = "Bot.py"
    THEN /\ ~BelowThreshold(last.rowAvg)
         /\ SameTeams(filtered_matches[last.row], last.ev)
         /\ last.ev.SS = NilNil
         /\ ~IsNone(last.ev.TU) /\ InputMinute >= CHECK_TIME_MINUTES
    ELSE /\ ~LeagueExcluded(last.ev.league)
         /\ \E r \in Rows(df) : ~BelowThreshold(r.avg) /\ SameTeams(r, last.ev)
         /\ last.ev.homeGoals = 0 /\ last.ev.awayGoals = 0
         /\ ~IsNone(last.ev.minute)
         /\ MIN_MINUTE <= Val(last.ev.minute) /\ Val(last.ev.minute) <= MAX_MINUTE

\* C8: a fixture that passes every guard (allowed league, a schedule row with
\* average goals at or above the threshold whose team names equal or contain
\* or are contained in the event's, score 0-0, minute inside the window) is
\* notified in that cycle unless its key was notified before, and the alert
\* carries the team names and the minute.
C8_EligibleFixtureNotified ==
    (Evaluated /\ Eligible)
        => /\ last.outcome \in SendOutcomes \cup {"duplicate"}
           /\ Sent => /\ Val(last.msg).home = last.ev.home
                      /\ Val(last.msg).away = last.ev.away
                      /\ Val(last.msg).minute = InputMinute

\* C9: normalize(normalize(s)) = normalize(s) for every text s.
C9_NormalizeIdempotent ==
    nrm.stage = "twice" => nrm.twice = nrm.once

\* C10: in one cycle a schedule row is paired with at most one live event:
\* at most one send is issued for a row.
C10_OneEventPerRowPerCycle ==
    \A p \in cycleLog, q \in cycleLog : p[1] = q[1] => p = q


(***************************************************************************)
(* The driver loops of main.                                               *)
(***************************************************************************)
\* main is about to run the body of "while True"
CycleStarts == pc \in {"check_matches", "read_csv"}

\* the body is running
InCycle == pc \in {"check_matches", "read_csv", "loop", "process_once"}

\* the body ended, by its last statement or by an exception, and main sleeps
CycleEnded == pc \in {"sleep", "error_sleep"}

\* the cycle that ended was not the last one of the modelled run
MoreCycles == cycles < MaxCycles

\* the step that leaves the sleep starts the next cycle with both
\* duplicate-suppression sets as the ended cycle left them
WakeUpKeepsSets ==
    (CycleEnded /\ pc' # pc)
        => /\ CycleStarts'
           /\ already_notified' = already_notified
           /\ notified_matches' = notified_matches

\* C11: the driver never exits because of an error: every cycle that runs
\* ends in a sleep of the driver, whether its body finished or raised, and
\* every sleep is followed by the start of another cycle (within the
\* modelled number of cycles) in which the duplicate-suppression set is the
\* one the ended cycle left.
C11_DriverNeverExits ==
    /\ [][WakeUpKeepsSets]_vars
    /\ (InCycle ~> CycleEnded)
    /\ ((CycleEnded /\ MoreCycles) ~> CycleStarts)

\* a cycle of Bot.py starts after the cycle before it sent a notification
\* and then raised
C11_RestartedAfterException ==
    /\ variant = "Bot.py" /\ pc = "check_matches"
    /\ now = StartEpoch + error_sleep
    /\ notified_matches # {}


(***************************************************************************)
(* Malformed records.                                                      *)
(***************************************************************************)
\* a live event of Bot.py whose team names have an unexpected shape
BotMalformed(ev) == ev.shape # "ok"

\* the pair (row i, event j) of the lists of Bot.py is a well-formed fixture
\* that is due now
BotEligiblePair(i, j) ==
    /\ ~BotMalformed(live_matches[j])
    /\ match_teams(filtered_matches[i], live_matches[j])
    /\ ~IsNone(live_matches[j].TU)
    /\ BotDue(BotElapsedMinutes(Val(live_matches[j].TU), now), live_matches[j].SS)

\* C12: a malformed record is only skipped.  When a cycle of Bot.py whose
\* live list holds a malformed event has ended, every well-formed eligible
\* pair of its lists was notified in it (or its id was notified before);
\* in src/bot.py an event without a team name is skipped as incomplete and
\* ends nothing but its own evaluation.
C12_MalformedRecordOnlySkipped ==
    /\ (variant = "Bot.py" /\ CycleEnded
            /\ \E j \in DOMAIN live_matches : BotMalformed(live_matches[j]))
        => \A i \in DOMAIN filtered_matches, j \in DOMAIN live_matches :
               BotEligiblePair(i, j)
                   => \/ <<i, j>> \in cycleLog
                      \/ live_matches[j].id \in notified_matches
    /\ (variant = "src/bot.py" /\ Evaluated
            /\ (last.ev.home = <<>> \/ last.ev.away = <<>>))
        => last.outcome = "incomplete" /\ pc \in {"process_once", "sleep"}


\* a record without a home or an away team name
EmptyTeamName(rec) == rec.home = <<>> \/ rec.away = <<>>

\* C13: a live event or schedule row whose home or away team name is
\* missing or empty is silently skipped: its evaluation ends before it is
\* paired with a record of the other source (as incomplete, or as no match),
\* so it is never notified and never raises an error.
C13_EmptyNameSkipped ==
    (Evaluated /\ (EmptyTeamName(last.ev) \/ \E r \in last.examined : EmptyTeamName(r)))
        => last.outcome \in {"incomplete", "no_match"}


(***************************************************************************)
(* Elapsed-minute resolution of src/bot.py.                                *)
(***************************************************************************)
\* the evaluation got as far as resolving the minute
MinuteResolved ==
    variant = "src/bot.py" /\ Evaluated
        /\ last.outcome \notin {"incomplete", "league", "score"}

\* the minute the event stands for: its explicit minute when it has one,
\* else the whole minutes since a kickoff that is not in the future
ExpectedMinute(ev) ==
    IF ~IsNone(ev.minute) THEN ev.minute
    ELSE IF ~IsNone(ev.kickoff) /\ now > Val(ev.kickoff)
         THEN Some((now - Val(ev.kickoff)) \div 60)
         ELSE NoneVal

\* C14: the explicit elapsed minute of the live event has priority over its
\* kickoff time: the resolved minute equals the explicit minute whenever
\* the event has one (0 included, whatever kickoff it also has), equals
\* floor((now - kickoff) / 60) only when it has none, and is unresolved
\* when the event has neither.
C14_ExplicitMinuteFirst ==
    MinuteResolved => last.minute = ExpectedMinute(last.ev)

====
